---- MODULE Spec2Model ----
(***************************************************************************)
(* The residual-code generator of the partial evaluator:                    *)
(*   - PreludeGenerator (src/src/utils/generator.js:198-245), the           *)
(*     identifier/reference allocator with save/restore;                    *)
(*   - Generator (src/src/utils/generator.js:27-189), the recorder of body  *)
(*     entries, with derive;                                                *)
(*   - AbstractValue (src/unnamed/part_000), the symbolic value.            *)
(*                                                                          *)
(* JavaScript objects that the code copies or shares (the prelude array,    *)
(* the derivedIds Set, the memoisedRefs Map) live in stores indexed by      *)
(* reference, so that copying and aliasing are different things.  Babel     *)
(* nodes are records; an identifier node made from generateUid() carries    *)
(* the serial number of that call as its object identity (oid).             *)
(***************************************************************************)
EXTENDS Integers, Sequences, FiniteSets, TLC

VARIABLES
  pg,        \* the realm's PreludeGenerator object: references + uidCounter
  saved,     \* <<>> or <<the PreludeGenerator returned by the last save()>>
  arrays,    \* store of Array objects   (prelude)
  sets,      \* store of Set objects     (derivedIds)
  maps,      \* store of Map objects     (memoisedRefs)
  body,      \* Generator.body
  savedLen,  \* body length the evaluator recorded with the snapshot
  issued,    \* history: every name generateUid() has returned, in call order
  abstracts, \* heap of AbstractValue objects, in allocation order
  ret,       \* the last call: operation, inputs, result, fault
  retained,  \* history: the names returned by calls no restore has undone
  snap       \* history: the allocator and the body as they were at the last save()

vars == <<pg, saved, arrays, sets, maps, body, savedLen, issued, abstracts, ret,
          retained, snap>>

----------------------------------------------------------------------------
(* Bounds *)

\* generateUid() calls in one allocator lifetime
MaxMint == 3
\* entries in Generator.body
MaxBody == 3
\* entries in Generator.body where every descriptor is tried
MaxDefine == 2
\* AbstractValue objects made by calling the constructor directly
MaxConstruct == 1
\* AbstractValue objects in all
MaxAbstracts == 3

\* references to container objects of one kind: the live allocator's, the
\* snapshot's, a new allocator's, and the one a copy is being made into
Refs == {1, 2, 3, 4}

\* uidCounter values the allocator starts from: a new allocator, and one
\* that has already handed out 61 names (so that the encoding grows a digit)
StartCounters == {0, 61}

----------------------------------------------------------------------------
(* base62 *)

Base62Chars ==
  << "0", "1", "2", "3", "4", "5", "6", "7", "8", "9",
     "a", "b", "c", "d", "e", "f", "g", "h", "i", "j", "k", "l", "m",
     "n", "o", "p", "q", "r", "s", "t", "u", "v", "w", "x", "y", "z",
     "A", "B", "C", "D", "E", "F", "G", "H", "I", "J", "K", "L", "M",
     "N", "O", "P", "Q", "R", "S", "T", "U", "V", "W", "X", "Y", "Z" >>

Base62Radix == Len(Base62Chars)

RECURSIVE Base62Digits(_)
Base62Digits(n) ==
  IF n = 0 THEN ""
  ELSE Base62Digits(n \div Base62Radix) \o Base62Chars[(n % Base62Radix) + 1]

Base62Encode(n) == IF n = 0 THEN "0" ELSE Base62Digits(n)

----------------------------------------------------------------------------
(* babel-types nodes *)

\* t.identifier(name); oid is the object identity of the node (0: a node
\* nobody keeps a reference to)
Identifier(name, oid) == [type |-> "Identifier", name |-> name, oid |-> oid]

MemberExpression(obj, prop) ==
  [type |-> "MemberExpression", object |-> obj, property |-> prop]

VariableDeclaration(id, init) ==
  [type |-> "VariableDeclaration", kind |-> "var",
   declarations |-> << [type |-> "VariableDeclarator", id |-> id, init |-> init] >>]

----------------------------------------------------------------------------
(* PreludeGenerator *)

\* dotted paths the model requests; a key is the string, Split its segments
KeyPaths == { <<"Object", "defineProperty">>, <<"a", "b", "c">> }

RECURSIVE Join(_)
Join(segs) ==
  IF Len(segs) = 1 THEN segs[1]
  ELSE Join(SubSeq(segs, 1, Len(segs) - 1)) \o "." \o segs[Len(segs)]

MemoKeys == { Join(p) : p \in KeyPaths }

Split(str) == CHOOSE p \in KeyPaths : Join(p) = str

RECURSIVE FoldMember(_)
FoldMember(nodes) ==
  IF Len(nodes) = 1 THEN nodes[1]
  ELSE MemberExpression(FoldMember(SubSeq(nodes, 1, Len(nodes) - 1)), nodes[Len(nodes)])

convertStringToMember(str) ==
  LET segs == Split(str)
  IN FoldMember([i \in 1..Len(segs) |-> Identifier(segs[i], 0)])

SavedPGs == { saved[i] : i \in 1..Len(saved) }

\* a reference no live object holds: what `new` returns
FreshRef(used) == CHOOSE r \in Refs \ used : \A q \in Refs \ used : r <= q

EmptyMap == [k \in {} |-> Identifier("", 0)]

\* References are only ever compared for equality, and an object nothing
\* references is gone: the stores are kept in a canonical numbering, the live
\* allocator's objects first, then the snapshot's.
Renumber(liveRef, snapRefs) ==
  [r \in {liveRef} \cup snapRefs |-> IF r = liveRef THEN 1 ELSE 2]

Compact(store, num, empty) ==
  [r \in Refs |-> IF \E q \in DOMAIN num : num[q] = r
                  THEN store[CHOOSE q \in DOMAIN num : num[q] = r]
                  ELSE empty]

\* the state of the three stores and of the two PreludeGenerator objects
Heap(live, snapshot, a, s, m) ==
  LET held == { snapshot[i] : i \in 1..Len(snapshot) }
      na == Renumber(live.prelude, { g.prelude : g \in held })
      ns == Renumber(live.derivedIds, { g.derivedIds : g \in held })
      nm == Renumber(live.memoisedRefs, { g.memoisedRefs : g \in held })
      Moved(g) == [prelude |-> na[g.prelude], derivedIds |-> ns[g.derivedIds],
                   memoisedRefs |-> nm[g.memoisedRefs], uidCounter |-> g.uidCounter]
  IN [pg |-> Moved(live),
      saved |-> [i \in 1..Len(snapshot) |-> Moved(snapshot[i])],
      arrays |-> Compact(a, na, << >>),
      sets |-> Compact(s, ns, {}),
      maps |-> Compact(m, nm, EmptyMap)]

SetHeap(h) ==
  /\ pg' = h.pg
  /\ saved' = h.saved
  /\ arrays' = h.arrays
  /\ sets' = h.sets
  /\ maps' = h.maps

\* new PreludeGenerator(): empty containers of its own, counter 0
PreludeGenerator(held) ==
  [prelude |-> FreshRef({ g.prelude : g \in held }),
   derivedIds |-> FreshRef({ g.derivedIds : g \in held }),
   memoisedRefs |-> FreshRef({ g.memoisedRefs : g \in held }),
   uidCounter |-> 0]

\* copyPG without the slice(0): `to` shares the prelude array of `from`
copyPG_sharedPrelude(from, to, held) ==
  LET s == FreshRef({ g.derivedIds : g \in held })
      m == FreshRef({ g.memoisedRefs : g \in held })
  IN [to |-> [to EXCEPT !.prelude = from.prelude, !.derivedIds = s,
                        !.memoisedRefs = m, !.uidCounter = from.uidCounter],
      arrays |-> arrays,
      sets |-> [sets EXCEPT ![s] = sets[from.derivedIds]],
      maps |-> [maps EXCEPT ![m] = maps[from.memoisedRefs]]]

\* copyPG without the assignment of uidCounter
copyPG_counterKept(from, to, held) ==
  LET a == FreshRef({ g.prelude : g \in held })
      s == FreshRef({ g.derivedIds : g \in held })
      m == FreshRef({ g.memoisedRefs : g \in held })
  IN [to |-> [to EXCEPT !.prelude = a, !.derivedIds = s, !.memoisedRefs = m],
      arrays |-> [arrays EXCEPT ![a] = arrays[from.prelude]],
      sets |-> [sets EXCEPT ![s] = sets[from.derivedIds]],
      maps |-> [maps EXCEPT ![m] = maps[from.memoisedRefs]]]

\* copyPG without the new Map: `to` shares the memoisedRefs map of `from`
copyPG_sharedMemo(from, to, held) ==
  LET a == FreshRef({ g.prelude : g \in held })
      s == FreshRef({ g.derivedIds : g \in held })
  IN [to |-> [to EXCEPT !.prelude = a, !.derivedIds = s,
                        !.memoisedRefs = from.memoisedRefs,
                        !.uidCounter = from.uidCounter],
      arrays |-> [arrays EXCEPT ![a] = arrays[from.prelude]],
      sets |-> [sets EXCEPT ![s] = sets[from.derivedIds]],
      maps |-> maps]

\* copyPG without the assignment of prelude: `to` keeps its own array
copyPG_preludeKept(from, to, held) ==
  LET s == FreshRef({ g.derivedIds : g \in held })
      m == FreshRef({ g.memoisedRefs : g \in held })
  IN [to |-> [to EXCEPT !.derivedIds = s, !.memoisedRefs = m,
                        !.uidCounter = from.uidCounter],
      arrays |-> arrays,
      sets |-> [sets EXCEPT ![s] = sets[from.derivedIds]],
      maps |-> [maps EXCEPT ![m] = maps[from.memoisedRefs]]]

\* copyPG with new Set() in place of new Set(from.derivedIds)
copyPG_derivedIdsDropped(from, to, held) ==
  LET a == FreshRef({ g.prelude : g \in held })
      s == FreshRef({ g.derivedIds : g \in held })
      m == FreshRef({ g.memoisedRefs : g \in held })
  IN [to |-> [to EXCEPT !.prelude = a, !.derivedIds = s, !.memoisedRefs = m,
                        !.uidCounter = from.uidCounter],
      arrays |-> [arrays EXCEPT ![a] = arrays[from.prelude]],
      sets |-> [sets EXCEPT ![s] = {}],
      maps |-> [maps EXCEPT ![m] = maps[from.memoisedRefs]]]

\* copyPG(from, to): `to` afterwards and the stores, where `held` are the
\* PreludeGenerator objects alive during the call
copyPG(from, to, held) ==
  LET a == FreshRef({ g.prelude : g \in held })
      s == FreshRef({ g.derivedIds : g \in held })
      m == FreshRef({ g.memoisedRefs : g \in held })
  IN [to |-> [to EXCEPT !.prelude = a, !.derivedIds = s, !.memoisedRefs = m,
                        !.uidCounter = from.uidCounter],
      arrays |-> [arrays EXCEPT ![a] = arrays[from.prelude]],
      sets |-> [sets EXCEPT ![s] = sets[from.derivedIds]],
      maps |-> [maps EXCEPT ![m] = maps[from.memoisedRefs]]]

\* save(): a new PreludeGenerator filled by copyPG(this, saved); the heap
\* once the caller holds it as its snapshot
save ==
  LET new == PreludeGenerator({pg} \cup SavedPGs)
      c == copyPG(pg, new, {pg, new} \cup SavedPGs)
  IN Heap(pg, << c.to >>, c.arrays, c.sets, c.maps)

\* restore(saved): copyPG(saved, this)
restore(from) ==
  LET c == copyPG(from, pg, {pg} \cup SavedPGs)
  IN Heap(c.to, saved, c.arrays, c.sets, c.maps)

\* what a PreludeGenerator object holds, by content
Contents(g) ==
  [uidCounter |-> g.uidCounter, derivedIds |-> sets[g.derivedIds],
   memoisedRefs |-> maps[g.memoisedRefs], prelude |-> arrays[g.prelude]]

\* generateUid() with uidCounter read but not advanced
generateUid_noIncrement(counter) ==
  [id |-> "_" \o Base62Encode(counter), uidCounter |-> counter]

\* generateUid(): the name, and the counter afterwards
generateUid(counter) ==
  [id |-> "_" \o Base62Encode(counter), uidCounter |-> counter + 1]

CanMint(n) == Len(issued) + n <= MaxMint

\* memoiseReference(key) past the lookup, with prelude.unshift for prelude.push
memoiseNew_unshift(key) ==
  LET uid == generateUid(pg.uidCounter)
      ref == Identifier(uid.id, Len(issued) + 1)
      old == maps[pg.memoisedRefs]
  IN [ref |-> ref, hit |-> FALSE,
      uidCounter |-> uid.uidCounter,
      prelude |-> << VariableDeclaration(ref, convertStringToMember(key)) >>
                    \o arrays[pg.prelude],
      memoisedRefs |-> [k \in DOMAIN old \cup {key} |-> IF k = key THEN ref ELSE old[k]],
      minted |-> << uid.id >>]

\* memoiseReference(key) past the lookup: a new identifier, its binding
\* appended to the prelude, the mapping recorded
memoiseNew(key) ==
  LET uid == generateUid(pg.uidCounter)
      ref == Identifier(uid.id, Len(issued) + 1)
      old == maps[pg.memoisedRefs]
  IN [ref |-> ref, hit |-> FALSE,
      uidCounter |-> uid.uidCounter,
      prelude |-> Append(arrays[pg.prelude],
                         VariableDeclaration(ref, convertStringToMember(key))),
      memoisedRefs |-> [k \in DOMAIN old \cup {key} |-> IF k = key THEN ref ELSE old[k]],
      minted |-> << uid.id >>]

\* memoiseReference(key) without the lookup
memoiseReference_uncached(key) == memoiseNew(key)

\* memoiseReference(key) without memoisedRefs.set(key, ref)
memoiseReference_unrecorded(key) ==
  IF key \in DOMAIN maps[pg.memoisedRefs]
  THEN [ref |-> maps[pg.memoisedRefs][key], hit |-> TRUE,
        uidCounter |-> pg.uidCounter,
        prelude |-> arrays[pg.prelude],
        memoisedRefs |-> maps[pg.memoisedRefs],
        minted |-> << >>]
  ELSE [memoiseNew(key) EXCEPT !.memoisedRefs = maps[pg.memoisedRefs]]

\* memoiseReference(key) on the live allocator: the reference returned and
\* the allocator afterwards
memoiseReference(key) ==
  IF key \in DOMAIN maps[pg.memoisedRefs]
  THEN [ref |-> maps[pg.memoisedRefs][key], hit |-> TRUE,
        uidCounter |-> pg.uidCounter,
        prelude |-> arrays[pg.prelude],
        memoisedRefs |-> maps[pg.memoisedRefs],
        minted |-> << >>]
  ELSE memoiseNew(key)

\* the history of the names handed out
Minted(names) ==
  /\ issued' = issued \o names
  /\ retained' = retained \o names

\* the history at a save() and at a restore() of that snapshot
Snapshot ==
  snap' = [taken |-> TRUE, alloc |-> Contents(pg), body |-> body,
           retained |-> Len(retained), issued |-> Len(issued),
           abstracts |-> Len(abstracts)]

Undone == retained' = SubSeq(retained, 1, snap.retained)

\* the effect of a memoiseReference(key) call on the state
ApplyMemoise(r) ==
  /\ pg' = [pg EXCEPT !.uidCounter = r.uidCounter]
  /\ arrays' = [arrays EXCEPT ![pg.prelude] = r.prelude]
  /\ maps' = [maps EXCEPT ![pg.memoisedRefs] = r.memoisedRefs]
  /\ Minted(r.minted)

NoValue == [cls |-> "none", ref |-> 0]

\* the state after construction, and after `c` calls of generateUid()
InitFrom(counters) ==
  /\ \E c \in counters :
       pg = [prelude |-> 1, derivedIds |-> 1, memoisedRefs |-> 1, uidCounter |-> c]
  /\ saved = << >>
  /\ arrays = [r \in Refs |-> << >>]
  /\ sets = [r \in Refs |-> {}]
  /\ maps = [r \in Refs |-> EmptyMap]
  /\ body = << >>
  /\ savedLen = 0
  /\ issued = << >>
  /\ abstracts = << >>
  /\ ret = [op |-> "new"]
  /\ retained = << >>
  /\ snap = [taken |-> FALSE,
             alloc |-> [uidCounter |-> 0, derivedIds |-> {}, memoisedRefs |-> EmptyMap,
                        prelude |-> << >>],
             body |-> << >>, retained |-> 0, issued |-> 0, abstracts |-> 0]

Init == InitFrom({0})

InitAlloc == InitFrom(StartCounters)

GenerateUid ==
  /\ CanMint(1)
  /\ LET uid == generateUid(pg.uidCounter)
     IN /\ pg' = [pg EXCEPT !.uidCounter = uid.uidCounter]
        /\ Minted(<< uid.id >>)
        /\ ret' = [op |-> "generateUid", id |-> uid.id]
  /\ UNCHANGED <<saved, arrays, sets, maps, body, savedLen, abstracts, snap>>

MemoiseReference(key) ==
  /\ LET r == memoiseReference(key)
     IN /\ CanMint(Len(r.minted))
        /\ ApplyMemoise(r)
        /\ ret' = [op |-> "memoiseReference", key |-> key, node |-> r.ref, hit |-> r.hit]
  /\ UNCHANGED <<saved, sets, body, savedLen, abstracts, snap>>

\* the caller takes a snapshot: saved = preludeGenerator.save()
Save ==
  /\ SetHeap(save)
  /\ Snapshot
  /\ ret' = [op |-> "save"]
  /\ UNCHANGED <<body, savedLen, issued, abstracts, retained>>

\* the caller goes back to its snapshot: preludeGenerator.restore(saved)
Restore ==
  /\ saved # << >>
  /\ SetHeap(restore(saved[1]))
  /\ Undone
  /\ ret' = [op |-> "restore"]
  /\ UNCHANGED <<body, savedLen, issued, abstracts, snap>>

----------------
(* Values *)

\* a reference to a Value object: its class and which object of that class
ValueRef(cls, ref) == [cls |-> cls, ref |-> ref]

\* realm.intrinsics.undefined, realm.intrinsics.empty
undefined == ValueRef("UndefinedValue", 0)
empty == ValueRef("EmptyValue", 0)

\* values the evaluator passes in
anObject == ValueRef("ObjectValue", 1)
aNumber == ValueRef("NumberValue", 1)
aGetter == ValueRef("FunctionValue", 1)
aSetter == ValueRef("FunctionValue", 2)

\* JavaScript truthiness of an optional field holding a Value object
Truthy(v) == v # NoValue

\* desc.value || undefined
OrUndefined(v) == IF Truthy(v) THEN v ELSE undefined

\* what TypesDomain.getType() can return (Value: no single type is known)
TypeTags ==
  { "FunctionValue", "UndefinedValue", "NullValue", "StringValue", "BooleanValue",
    "NumberValue", "SymbolValue", "ObjectValue", "Value" }

\* ValuesDomain.topVal
topVal == [isTop |-> TRUE, classes |-> {}]

\* a synthesis recipe: a closure over nodes, or a fixed node
Closure(name) == [isFunction |-> TRUE, name |-> name, node |-> Identifier("", 0)]
FixedNode(node) == [isFunction |-> FALSE, name |-> "", node |-> node]

\* the recipes the callers of derive and of the constructor pass
buildRecipe == Closure("build")
globalRecipe == FixedNode(Identifier("global", 0))

\* the recipes promoteEmptyToUndefined passes: the comparison with empty,
\* and the conditional over it
strictEqualsRecipe == Closure("strictEquals")
conditionalRecipe == Closure("conditional")

Recipes == { buildRecipe, globalRecipe }

\* the optional kind of an abstract value: <<>> when not given
NoKind == << >>

----------------------------------------------------------------------------
(* more babel-types nodes *)

ExpressionStatement(e) == [type |-> "ExpressionStatement", expression |-> e]

AssignmentExpression(l, r) ==
  [type |-> "AssignmentExpression", operator |-> "=", left |-> l, right |-> r]

UnaryExpression(op, arg) ==
  [type |-> "UnaryExpression", operator |-> op, argument |-> arg]

BinaryExpression(op, l, r) ==
  [type |-> "BinaryExpression", operator |-> op, left |-> l, right |-> r]

LogicalExpression(op, l, r) ==
  [type |-> "LogicalExpression", operator |-> op, left |-> l, right |-> r]

CallExpression(callee, arguments) ==
  [type |-> "CallExpression", callee |-> callee, arguments |-> arguments]

NewExpression(callee, arguments) ==
  [type |-> "NewExpression", callee |-> callee, arguments |-> arguments]

ObjectProperty(key, value) == [type |-> "ObjectProperty", key |-> key, value |-> value]

ObjectExpression(props) == [type |-> "ObjectExpression", properties |-> props]

BooleanLiteral(b) == [type |-> "BooleanLiteral", value |-> b]

StringLiteral(str) == [type |-> "StringLiteral", value |-> str]

NullLiteral == [type |-> "NullLiteral"]

IfStatement(test, consequent) ==
  [type |-> "IfStatement", test |-> test, consequent |-> consequent]

BlockStatement(stmts) == [type |-> "BlockStatement", body |-> stmts]

ThrowStatement(arg) == [type |-> "ThrowStatement", argument |-> arg]

\* the expression a caller's closure builds from the nodes it is given
ApplyClosure(name, nodes) == [type |-> "Synthesized", by |-> name, nodes |-> nodes]

----------------------------------------------------------------------------
(* AbstractValue *)

TypesDomain(type) == [type |-> type]

getType(types) == types.type

\* the evaluation context is in partial mode (the Generator's constructor
\* requires it)
realmIsPartial == TRUE

\* the realm of the Generator, and the realms a value may be constructed in
theRealm == [isPartial |-> realmIsPartial]
Realms == { [isPartial |-> b] : b \in BOOLEAN }

\* the constructor without invariant(type !== NullValue && type !== UndefinedValue)
AbstractValue_nullAllowed(realm, cls, types, values, args, buildNode, kind, intrinsicName) ==
  LET ok == /\ realm.isPartial
            /\ getType(types) # "ObjectValue" \/ cls = "AbstractObjectValue"
  IN [fault |-> ~ok,
      object |-> [cls |-> cls, types |-> types, values |-> values, args |-> args,
                  buildNode |-> buildNode, kind |-> kind,
                  intrinsicName |-> intrinsicName]]

\* new AbstractValue(realm, types, values, args, buildNode, kind, intrinsicName),
\* where cls is the class being constructed
AbstractValue(realm, cls, types, values, args, buildNode, kind, intrinsicName) ==
  LET ok == /\ realm.isPartial
            /\ getType(types) # "ObjectValue" \/ cls = "AbstractObjectValue"
            /\ getType(types) # "NullValue" /\ getType(types) # "UndefinedValue"
  IN [fault |-> ~ok,
      object |-> [cls |-> cls, types |-> types, values |-> values, args |-> args,
                  buildNode |-> buildNode, kind |-> kind,
                  intrinsicName |-> intrinsicName]]

\* realm.createAbstract: the object-specialized class for object type facts
createAbstract(types, values, args, buildNode, kind) ==
  AbstractValue(theRealm,
                IF getType(types) = "ObjectValue" THEN "AbstractObjectValue"
                ELSE "AbstractValue",
                types, values, args, buildNode, kind, << >>)

IsAbstract(v) == v.cls \in {"AbstractValue", "AbstractObjectValue"}

hasIdentifier(av) == ~av.buildNode.isFunction /\ av.buildNode.node.type = "Identifier"

\* defined when hasIdentifier(av)
getIdentifier(av) == av.buildNode.node

\* a ValuesDomain that is not topVal: the classes of the concrete values in it
ValuesOf(classes) == [isTop |-> FALSE, classes |-> classes]

\* values.includesValueOfType(type), values.includesValueNotOfType(type)
includesValueOfType(values, type) == values.isTop \/ type \in values.classes

includesValueNotOfType(values, type) == values.isTop \/ values.classes \ {type} # {}

\* values.promoteEmptyToUndefined()
promoteEmptyToUndefinedDomain(values) ==
  IF values.isTop \/ "EmptyValue" \notin values.classes THEN values
  ELSE ValuesOf((values.classes \ {"EmptyValue"}) \cup {"UndefinedValue"})

\* clone(): a new base-class object from types, values, args and _buildNode;
\* kind is copied when set, intrinsicName is not
clone(av) ==
  LET made == AbstractValue(theRealm, "AbstractValue", av.types, av.values, av.args,
                            av.buildNode, NoKind, << >>)
  IN [fault |-> made.fault,
      object |-> [made.object EXCEPT !.kind = IF av.kind # NoKind THEN av.kind ELSE @]]

mightBeNumber(av) ==
  IF getType(av.types) = "NumberValue" THEN TRUE
  ELSE includesValueOfType(av.values, "NumberValue")

\* mightNotBeNumber without the test of the type
mightNotBeNumber_noFastPath(av) == includesValueNotOfType(av.values, "NumberValue")

mightNotBeNumber(av) ==
  IF getType(av.types) = "NumberValue" THEN FALSE
  ELSE includesValueNotOfType(av.values, "NumberValue")

mightNotBeObject(av) ==
  IF getType(av.types) = "ObjectValue" THEN FALSE
  ELSE includesValueNotOfType(av.values, "ObjectValue")

mightBeObject(av) ==
  IF getType(av.types) = "ObjectValue" THEN TRUE
  ELSE includesValueOfType(av.values, "ObjectValue")

mightBeUndefined(av) ==
  IF getType(av.types) = "UndefinedValue" THEN TRUE
  ELSE includesValueOfType(av.values, "UndefinedValue")

mightHaveBeenDeleted(av) == includesValueOfType(av.values, "EmptyValue")

PredicateNames ==
  { "mightBeNumber", "mightNotBeNumber", "mightNotBeObject", "mightBeObject",
    "mightBeUndefined", "mightHaveBeenDeleted" }

ApplyPredicate(name, av) ==
  CASE name = "mightBeNumber" -> mightBeNumber(av)
    [] name = "mightNotBeNumber" -> mightNotBeNumber(av)
    [] name = "mightNotBeObject" -> mightNotBeObject(av)
    [] name = "mightBeObject" -> mightBeObject(av)
    [] name = "mightBeUndefined" -> mightBeUndefined(av)
    [] name = "mightHaveBeenDeleted" -> mightHaveBeenDeleted(av)

\* promoteEmptyToUndefined without the early return
promoteEmptyToUndefined_always(this) ==
  LET av == abstracts[this.ref]
      c == clone(av)
      cond == createAbstract(TypesDomain("BooleanValue"), topVal, << this, empty >>,
                             strictEqualsRecipe, NoKind)
      condRef == ValueRef(cond.object.cls, Len(abstracts) + 2)
      result == [c.object EXCEPT !.values = promoteEmptyToUndefinedDomain(@),
                                 !.args = << condRef, undefined, this >>,
                                 !.buildNode = conditionalRecipe]
  IN IF c.fault THEN [fault |-> TRUE, objects |-> << >>, value |-> NoValue]
     ELSE [fault |-> FALSE, objects |-> << result, cond.object >>,
           value |-> ValueRef(result.cls, Len(abstracts) + 1)]

\* promoteEmptyToUndefined with result.args = [cond, this, undefined]
promoteEmptyToUndefined_swapped(this) ==
  LET av == abstracts[this.ref]
      c == clone(av)
      cond == createAbstract(TypesDomain("BooleanValue"), topVal, << this, empty >>,
                             strictEqualsRecipe, NoKind)
      condRef == ValueRef(cond.object.cls, Len(abstracts) + 2)
      result == [c.object EXCEPT !.values = promoteEmptyToUndefinedDomain(@),
                                 !.args = << condRef, this, undefined >>,
                                 !.buildNode = conditionalRecipe]
  IN IF ~includesValueOfType(av.values, "EmptyValue")
     THEN [fault |-> FALSE, objects |-> << >>, value |-> this]
     ELSE IF c.fault THEN [fault |-> TRUE, objects |-> << >>, value |-> NoValue]
     ELSE [fault |-> FALSE, objects |-> << result, cond.object >>,
           value |-> ValueRef(result.cls, Len(abstracts) + 1)]

\* this.promoteEmptyToUndefined(), where `this` refers to abstracts[this.ref]:
\* the objects it allocates (the clone, then the guard) as they are when it
\* returns, and the value returned
promoteEmptyToUndefined(this) ==
  LET av == abstracts[this.ref]
      c == clone(av)
      cond == createAbstract(TypesDomain("BooleanValue"), topVal, << this, empty >>,
                             strictEqualsRecipe, NoKind)
      condRef == ValueRef(cond.object.cls, Len(abstracts) + 2)
      result == [c.object EXCEPT !.values = promoteEmptyToUndefinedDomain(@),
                                 !.args = << condRef, undefined, this >>,
                                 !.buildNode = conditionalRecipe]
  IN IF ~includesValueOfType(av.values, "EmptyValue")
     THEN [fault |-> FALSE, objects |-> << >>, value |-> this]
     ELSE IF c.fault THEN [fault |-> TRUE, objects |-> << >>, value |-> NoValue]
     ELSE [fault |-> FALSE, objects |-> << result, cond.object >>,
           value |-> ValueRef(result.cls, Len(abstracts) + 1)]

----------------------------------------------------------------------------
(* Generator: the entries the emit operations push *)

Entry(declares, args, buildNode) ==
  [declaresDerivedId |-> declares, args |-> args, buildNode |-> buildNode]

emitGlobalDeclaration(key, value) ==
  Entry(<< >>, << value >>, [fn |-> "emitGlobalDeclaration", key |-> key])

emitGlobalAssignment(key, value) ==
  Entry(<< >>, << value >>, [fn |-> "emitGlobalAssignment", key |-> key])

emitGlobalDelete(key) ==
  Entry(<< >>, << >>, [fn |-> "emitGlobalDelete", key |-> key])

emitPropertyAssignment(object, key, value) ==
  Entry(<< >>, << object, value >>, [fn |-> "emitPropertyAssignment", key |-> key])

\* emitDefineProperty that takes the assignment path for data descriptors only
emitDefineProperty_dataOnly(object, key, desc) ==
  IF /\ desc.enumerable /\ desc.configurable /\ desc.writable /\ Truthy(desc.value)
     /\ ~Truthy(desc.get) /\ ~Truthy(desc.set)
  THEN emitPropertyAssignment(object, key, desc.value)
  ELSE Entry(<< >>,
             << object, OrUndefined(desc.value), OrUndefined(desc.get),
                OrUndefined(desc.set) >>,
             [fn |-> "emitDefineProperty", key |-> key, desc |-> desc])

emitDefineProperty(object, key, desc) ==
  IF desc.enumerable /\ desc.configurable /\ desc.writable /\ Truthy(desc.value)
  THEN emitPropertyAssignment(object, key, desc.value)
  ELSE Entry(<< >>,
             << object, OrUndefined(desc.value), OrUndefined(desc.get),
                OrUndefined(desc.set) >>,
             [fn |-> "emitDefineProperty", key |-> key, desc |-> desc])

emitPropertyDelete(object, key) ==
  Entry(<< >>, << object >>, [fn |-> "emitPropertyDelete", key |-> key])

\* new StringValue(realm, str)
StringValue(str) == [cls |-> "StringValue", ref |-> 0, value |-> str]

emitConsoleLog(str) ==
  Entry(<< >>, << StringValue(str) >>, [fn |-> "emitConsoleLog"])

\* a caller's violation condition, and the typeof check derive passes
CallerCondition(name) == [typeofString |-> "", name |-> name]
TypeofCondition(typeofString) == [typeofString |-> typeofString, name |-> ""]
checkCondition == CallerCondition("check")

emitInvariant(args, violationConditionFn) ==
  Entry(<< >>, args,
        [fn |-> "emitInvariant", violationConditionFn |-> violationConditionFn])

\* the typeof table without its symbol line
typeofStringOf_noSymbol(type) ==
  CASE type = "FunctionValue" -> "function"
    [] type = "StringValue" -> "string"
    [] type = "BooleanValue" -> "boolean"
    [] type = "NumberValue" -> "number"
    [] type = "ObjectValue" -> "object"
    [] OTHER -> ""

\* the typeof tag derive checks for a type, "" when it checks nothing
typeofStringOf(type) ==
  CASE type = "FunctionValue" -> "function"
    [] type = "StringValue" -> "string"
    [] type = "BooleanValue" -> "boolean"
    [] type = "NumberValue" -> "number"
    [] type = "SymbolValue" -> "symbol"
    [] type = "ObjectValue" -> "object"
    [] OTHER -> ""

\* derive's precondition left out
derivePrecondition_missing(args, buildNode_) == TRUE

\* invariant(buildNode_ instanceof Function || args.length === 0)
derivePrecondition(args, buildNode_) == buildNode_.isFunction \/ Len(args) = 0

\* the created value without res.intrinsicName = id.name
deriveResult_unnamed(object, id) == object

\* the value derive returns: the created one, named after the identifier
deriveResult(object, id) == [object EXCEPT !.intrinsicName = << id.name >>]

\* derive with the value constructed before the identifier is minted
derive_constructFirst(types, values, args, buildNode_, kind) ==
  LET uid == generateUid(pg.uidCounter)
      id == Identifier(uid.id, Len(issued) + 1)
      decl == Entry(<< id >>, args,
                   [fn |-> "derive", id |-> id, buildNode_ |-> buildNode_])
      made == createAbstract(types, values, args, FixedNode(id), kind)
      res == deriveResult(made.object, id)
      resRef == ValueRef(res.cls, Len(abstracts) + 1)
      typeofString == typeofStringOf(getType(types))
      none == [fault |-> TRUE, minted |-> << >>, pushed |-> << >>, objects |-> << >>,
               value |-> NoValue]
  IN IF ~derivePrecondition(args, buildNode_) \/ made.fault THEN none
     ELSE [fault |-> FALSE, minted |-> << id >>,
           pushed |-> IF typeofString # ""
                      THEN << decl, emitInvariant(<< resRef >>,
                                                  TypeofCondition(typeofString)) >>
                      ELSE << decl >>,
           objects |-> << res >>, value |-> resRef]

\* derive(types, values, args, buildNode_, kind): what the call does, in the
\* order the code does it.  It faults before anything is done when the
\* precondition fails, and after the identifier was minted and declared when
\* the AbstractValue constructor throws.
derive(types, values, args, buildNode_, kind) ==
  LET uid == generateUid(pg.uidCounter)
      id == Identifier(uid.id, Len(issued) + 1)
      decl == Entry(<< id >>, args,
                   [fn |-> "derive", id |-> id, buildNode_ |-> buildNode_])
      made == createAbstract(types, values, args, FixedNode(id), kind)
      res == deriveResult(made.object, id)
      resRef == ValueRef(res.cls, Len(abstracts) + 1)
      typeofString == typeofStringOf(getType(types))
      none == [fault |-> TRUE, minted |-> << >>, pushed |-> << >>, objects |-> << >>,
               value |-> NoValue]
  IN IF ~derivePrecondition(args, buildNode_) THEN none
     ELSE IF made.fault
       THEN [none EXCEPT !.minted = << id >>, !.pushed = << decl >>]
     ELSE [fault |-> FALSE, minted |-> << id >>,
           pushed |-> IF typeofString # ""
                      THEN << decl, emitInvariant(<< resRef >>,
                                                  TypeofCondition(typeofString)) >>
                      ELSE << decl >>,
           objects |-> << res >>, value |-> resRef]

----------------
(* Replay: the statement an entry's buildNode closure returns *)

\* the condition derive's invariant tests (generator.js:174-184)
typeofViolation(typeofString, nodes) ==
  LET condition == BinaryExpression("!==", UnaryExpression("typeof", nodes[1]),
                                    StringLiteral(typeofString))
  IN IF typeofString = "object"
     THEN LogicalExpression("||", condition,
                            BinaryExpression("===", nodes[1], NullLiteral))
     ELSE condition

violationCondition(fn, nodes) ==
  IF fn.typeofString # "" THEN typeofViolation(fn.typeofString, nodes)
  ELSE ApplyClosure(fn.name, nodes)

\* the descriptor object emitDefineProperty's closure builds (generator.js:93-102)
descriptorObject(desc, valueNode, getNode, setNode) ==
  LET flags == << ObjectProperty(Identifier("enumerable", 0),
                                 BooleanLiteral(desc.enumerable)),
                  ObjectProperty(Identifier("configurable", 0),
                                 BooleanLiteral(desc.configurable)) >>
  IN ObjectExpression(
       IF ~Truthy(desc.get) /\ ~Truthy(desc.set)
       THEN flags \o << ObjectProperty(Identifier("writable", 0),
                                       BooleanLiteral(desc.writable)),
                        ObjectProperty(Identifier("value", 0), valueNode) >>
       ELSE flags \o << ObjectProperty(Identifier("get", 0), getNode),
                        ObjectProperty(Identifier("set", 0), setNode) >>)

\* entry.buildNode(nodes); definePropertyRef is what
\* memoiseReference("Object.defineProperty") returns during the call
buildNode(entry, nodes, definePropertyRef) ==
  LET c == entry.buildNode
  IN CASE c.fn = "emitGlobalDeclaration" ->
            VariableDeclaration(Identifier(c.key, 0), nodes[1])
       [] c.fn = "emitGlobalAssignment" ->
            ExpressionStatement(AssignmentExpression(Identifier(c.key, 0), nodes[1]))
       [] c.fn = "emitGlobalDelete" ->
            ExpressionStatement(UnaryExpression("delete", Identifier(c.key, 0)))
       [] c.fn = "emitPropertyAssignment" ->
            ExpressionStatement(AssignmentExpression(
              MemberExpression(nodes[1], Identifier(c.key, 0)), nodes[2]))
       [] c.fn = "emitDefineProperty" ->
            ExpressionStatement(CallExpression(
              definePropertyRef,
              << nodes[1], StringLiteral(c.key),
                 descriptorObject(c.desc, nodes[2], nodes[3], nodes[4]) >>))
       [] c.fn = "emitPropertyDelete" ->
            ExpressionStatement(UnaryExpression(
              "delete", MemberExpression(nodes[1], Identifier(c.key, 0))))
       [] c.fn = "emitConsoleLog" ->
            ExpressionStatement(CallExpression(
              MemberExpression(Identifier("console", 0), Identifier("log", 0)),
              << nodes[1] >>))
       [] c.fn = "emitInvariant" ->
            IfStatement(
              violationCondition(c.violationConditionFn, nodes),
              BlockStatement(<< ThrowStatement(NewExpression(
                Identifier("Error", 0),
                << StringLiteral("Prepack model invariant violation") >>)) >>))
       [] c.fn = "derive" ->
            VariableDeclaration(c.id,
              IF c.buildNode_.isFunction THEN ApplyClosure(c.buildNode_.name, nodes)
              ELSE c.buildNode_.node)

\* the expression the serializer passes for a dependency: the identifier of
\* a value that has one, else an expression standing for the value
resolveNode(v) ==
  IF IsAbstract(v) /\ hasIdentifier(abstracts[v.ref])
  THEN getIdentifier(abstracts[v.ref])
  ELSE [type |-> "ValueExpression", of |-> v]

resolveNodes(args) == [i \in 1..Len(args) |-> resolveNode(args[i])]

DefinePropertyKey == "Object.defineProperty"

----------------------------------------------------------------------------
(* Actions of the Generator *)

\* this.body.push(entry) putting the entry in front
Push_front(entry) == Len(body) < MaxBody /\ body' = << entry >> \o body

Push(entry) == Len(body) < MaxBody /\ body' = Append(body, entry)

\* empty(): !this.body.length
emptyBody(b) == ~(Len(b) # 0)

AllocatorUnchanged == UNCHANGED <<pg, saved, arrays, sets, maps, issued, retained, snap>>

EmitGlobalDeclaration(key, value) ==
  /\ Push(emitGlobalDeclaration(key, value))
  /\ ret' = [op |-> "emitGlobalDeclaration", key |-> key, value |-> value]
  /\ AllocatorUnchanged /\ UNCHANGED <<savedLen, abstracts>>

EmitGlobalAssignment(key, value) ==
  /\ Push(emitGlobalAssignment(key, value))
  /\ ret' = [op |-> "emitGlobalAssignment", key |-> key, value |-> value]
  /\ AllocatorUnchanged /\ UNCHANGED <<savedLen, abstracts>>

EmitGlobalDelete(key) ==
  /\ Push(emitGlobalDelete(key))
  /\ ret' = [op |-> "emitGlobalDelete", key |-> key]
  /\ AllocatorUnchanged /\ UNCHANGED <<savedLen, abstracts>>

EmitPropertyAssignment(object, key, value) ==
  /\ Push(emitPropertyAssignment(object, key, value))
  /\ ret' = [op |-> "emitPropertyAssignment", object |-> object, key |-> key,
             value |-> value]
  /\ AllocatorUnchanged /\ UNCHANGED <<savedLen, abstracts>>

EmitDefineProperty(object, key, desc) ==
  /\ Push(emitDefineProperty(object, key, desc))
  /\ ret' = [op |-> "emitDefineProperty", object |-> object, key |-> key,
             desc |-> desc]
  /\ AllocatorUnchanged /\ UNCHANGED <<savedLen, abstracts>>

EmitPropertyDelete(object, key) ==
  /\ Push(emitPropertyDelete(object, key))
  /\ ret' = [op |-> "emitPropertyDelete", object |-> object, key |-> key]
  /\ AllocatorUnchanged /\ UNCHANGED <<savedLen, abstracts>>

EmitConsoleLog(str) ==
  /\ Push(emitConsoleLog(str))
  /\ ret' = [op |-> "emitConsoleLog", str |-> str]
  /\ AllocatorUnchanged /\ UNCHANGED <<savedLen, abstracts>>

EmitInvariant(args, violationConditionFn) ==
  /\ Push(emitInvariant(args, violationConditionFn))
  /\ ret' = [op |-> "emitInvariant", args |-> args]
  /\ AllocatorUnchanged /\ UNCHANGED <<savedLen, abstracts>>

Empty ==
  /\ ret' = [op |-> "empty", result |-> emptyBody(body)]
  /\ AllocatorUnchanged /\ UNCHANGED <<body, savedLen, abstracts>>

\* the reference to the i-th AbstractValue object
ValueAt(i) == ValueRef(abstracts[i].cls, i)

GeneratorUnchanged == AllocatorUnchanged /\ UNCHANGED <<body, savedLen>>

\* new AbstractValue(...) or new AbstractObjectValue(...) in some realm
Construct(realm, cls, types, values, args, buildNode_, kind) ==
  LET made == AbstractValue(realm, cls, types, values, args, buildNode_, kind, << >>)
  IN /\ Len(abstracts) < MaxConstruct
     /\ abstracts' = IF made.fault THEN abstracts ELSE Append(abstracts, made.object)
     /\ ret' = [op |-> "construct", fault |-> made.fault, realm |-> realm, cls |-> cls,
                types |-> types, args |-> args, buildNode_ |-> buildNode_,
                value |-> IF made.fault THEN NoValue
                          ELSE ValueRef(cls, Len(abstracts) + 1)]
     /\ GeneratorUnchanged

\* abstracts[i].clone(), for a receiver of the base class (the class of
\* object-typed values has its own source file)
Clone(i) ==
  /\ i \in 1..Len(abstracts)
  /\ abstracts[i].cls = "AbstractValue"
  /\ Len(abstracts) < MaxAbstracts
  /\ LET c == clone(abstracts[i])
     IN /\ abstracts' = IF c.fault THEN abstracts ELSE Append(abstracts, c.object)
        /\ ret' = [op |-> "clone", fault |-> c.fault, this |-> ValueAt(i),
                   value |-> IF c.fault THEN NoValue
                             ELSE ValueRef(c.object.cls, Len(abstracts) + 1)]
  /\ GeneratorUnchanged

\* abstracts[i].promoteEmptyToUndefined(); past the early return the receiver
\* is of the base class, as for clone
PromoteEmptyToUndefined(i) ==
  /\ i \in 1..Len(abstracts)
  /\ abstracts[i].cls = "AbstractValue"
       \/ ~includesValueOfType(abstracts[i].values, "EmptyValue")
  /\ LET r == promoteEmptyToUndefined(ValueAt(i))
     IN /\ Len(abstracts) + Len(r.objects) <= MaxAbstracts
        /\ abstracts' = abstracts \o r.objects
        /\ ret' = [op |-> "promoteEmptyToUndefined", fault |-> r.fault,
                   this |-> ValueAt(i), value |-> r.value]
  /\ GeneratorUnchanged

\* one of the predicates asked of abstracts[i]
Predicate(name, i) ==
  /\ i \in 1..Len(abstracts)
  /\ ret' = [op |-> name, this |-> ValueAt(i),
             result |-> ApplyPredicate(name, abstracts[i])]
  /\ GeneratorUnchanged /\ UNCHANGED abstracts

Derive(types, values, args, buildNode_, kind) ==
  LET d == derive(types, values, args, buildNode_, kind)
  IN /\ CanMint(Len(d.minted))
     /\ Len(body) + Len(d.pushed) <= MaxBody
     /\ pg' = [pg EXCEPT !.uidCounter = @ + Len(d.minted)]
     /\ Minted([i \in 1..Len(d.minted) |-> d.minted[i].name])
     /\ sets' = [sets EXCEPT ![pg.derivedIds] =
                   @ \cup { d.minted[i] : i \in 1..Len(d.minted) }]
     /\ body' = body \o d.pushed
     /\ abstracts' = abstracts \o d.objects
     /\ ret' = [op |-> "derive", fault |-> d.fault, types |-> types, args |-> args,
                buildNode_ |-> buildNode_, kind |-> kind, minted |-> d.minted,
                value |-> d.value]
     /\ UNCHANGED <<saved, arrays, maps, savedLen, snap>>

\* the serializer replays entry i: buildNode is called with the nodes of its
\* dependencies; emitDefineProperty's closure calls memoiseReference
Replay(i) ==
  /\ i \in 1..Len(body)
  /\ LET entry == body[i]
         nodes == resolveNodes(entry.args)
     IN IF entry.buildNode.fn = "emitDefineProperty"
        THEN LET r == memoiseReference(DefinePropertyKey)
             IN /\ CanMint(Len(r.minted))
                /\ ApplyMemoise(r)
                /\ ret' = [op |-> "replay", index |-> i,
                           statement |-> buildNode(entry, nodes, r.ref)]
        ELSE /\ ret' = [op |-> "replay", index |-> i,
                        statement |-> buildNode(entry, nodes, Identifier("", 0))]
             /\ UNCHANGED <<pg, arrays, maps, issued, retained>>
  /\ UNCHANGED <<saved, sets, body, savedLen, abstracts, snap>>

\* the evaluator starts a speculative attempt: it records the body length and
\* saves the allocator
Speculate ==
  /\ SetHeap(save)
  /\ savedLen' = Len(body)
  /\ Snapshot
  /\ ret' = [op |-> "speculate"]
  /\ UNCHANGED <<body, issued, abstracts, retained>>

\* the attempt failed: the body is cut back and the allocator restored
Rollback ==
  /\ saved # << >>
  /\ SetHeap(restore(saved[1]))
  /\ body' = SubSeq(body, 1, savedLen)
  /\ Undone
  /\ ret' = [op |-> "rollback"]
  /\ UNCHANGED <<savedLen, issued, abstracts, snap>>

----------------
(* Inputs *)

GlobalKeys == { "g" }
PropertyKeys == { "p" }
InputValues == { aNumber }

Descriptor(e, c, w, value, get, set) ==
  [enumerable |-> e, configurable |-> c, writable |-> w, value |-> value,
   get |-> get, set |-> set]

\* every descriptor over the sample values
AllDescriptors ==
  { Descriptor(e, c, w, v, g, s) :
      e \in BOOLEAN, c \in BOOLEAN, w \in BOOLEAN,
      v \in {NoValue, aNumber}, g \in {NoValue, aGetter}, s \in {NoValue, aSetter} }

\* the descriptors the evaluator defines while it speculates: a plain data
\* property and an accessor
SomeDescriptors ==
  { Descriptor(TRUE, TRUE, TRUE, aNumber, NoValue, NoValue),
    Descriptor(TRUE, FALSE, FALSE, NoValue, aGetter, NoValue) }

SomeDerives ==
  { << "NumberValue", << >>, FixedNode(Identifier("global", 0)) >>,
    << "Value", << aNumber >>, buildRecipe >>,
    << "NullValue", << >>, buildRecipe >> }

DeriveArgs == { << >>, << aNumber >> }

----------------------------------------------------------------------------
(* Specifications *)

\* the allocator, with derive as the source of derived identifiers
NextAlloc ==
  \/ GenerateUid
  \/ \E key \in MemoKeys : MemoiseReference(key)
  \/ Derive(TypesDomain("Value"), topVal, << >>, buildRecipe, NoKind)
  \/ Save
  \/ Restore

SpecAlloc == InitAlloc /\ [][NextAlloc]_vars

\* the generator and its allocator under an evaluator that speculates and
\* a serializer that replays
Next ==
  \/ MemoiseReference("a.b.c")
  \/ \E k \in GlobalKeys, v \in InputValues : EmitGlobalAssignment(k, v)
  \/ \E k \in PropertyKeys, d \in SomeDescriptors : EmitDefineProperty(anObject, k, d)
  \/ \E d \in SomeDerives : Derive(TypesDomain(d[1]), topVal, d[2], d[3], NoKind)
  \/ \E i \in 1..MaxBody : Replay(i)
  \/ Speculate
  \/ Rollback

Spec == Init /\ [][Next]_vars

\* derive over every type, dependency list and recipe, and the replay of its
\* entries
NextDerive ==
  \/ \E t \in TypeTags, a \in DeriveArgs, r \in Recipes :
       Derive(TypesDomain(t), topVal, a, r, IF r.isFunction THEN << "kind" >> ELSE NoKind)
  \/ \E i \in 1..MaxBody : Replay(i)

SpecDerive == Init /\ [][NextDerive]_vars

\* emitDefineProperty over every descriptor, and the replay of its entries
NextDefine ==
  \/ \E k \in PropertyKeys, d \in AllDescriptors :
       Len(body) < MaxDefine /\ EmitDefineProperty(anObject, k, d)
  \/ \E k \in PropertyKeys, v \in InputValues :
       Len(body) < MaxDefine /\ EmitPropertyAssignment(anObject, k, v)
  \/ \E key \in MemoKeys : MemoiseReference(key)
  \/ \E i \in 1..MaxBody : Replay(i)

SpecDefine == Init /\ [][NextDefine]_vars

\* every emit operation, on a generator that also derives and whose
\* allocator memoises
LogStrings == { "log" }

NextEmit ==
  \/ \E k \in GlobalKeys, v \in InputValues : EmitGlobalDeclaration(k, v)
  \/ \E k \in GlobalKeys, v \in InputValues : EmitGlobalAssignment(k, v)
  \/ \E k \in GlobalKeys : EmitGlobalDelete(k)
  \/ \E k \in PropertyKeys, v \in InputValues : EmitPropertyAssignment(anObject, k, v)
  \/ \E k \in PropertyKeys, d \in SomeDescriptors : EmitDefineProperty(anObject, k, d)
  \/ \E k \in PropertyKeys : EmitPropertyDelete(anObject, k)
  \/ \E str \in LogStrings : EmitConsoleLog(str)
  \/ \E v \in InputValues : EmitInvariant(<< v >>, checkCondition)
  \/ Empty
  \/ Derive(TypesDomain("Value"), topVal, << >>, buildRecipe, NoKind)
  \/ MemoiseReference("a.b.c")

SpecEmit == Init /\ [][NextEmit]_vars

\* the symbolic values: construction in either realm, clone, promotion,
\* the predicates, and derive
ValueDomains ==
  { topVal, ValuesOf({"NumberValue"}), ValuesOf({"NumberValue", "EmptyValue"}) }

ConstructTypes == { "NumberValue", "ObjectValue", "NullValue", "UndefinedValue", "Value" }

\* the classes constructed with a type: the object-specialized class is
\* constructed with object type facts (and with the types no class accepts)
ConstructClasses(type) ==
  IF type \in {"NumberValue", "Value"} THEN {"AbstractValue"}
  ELSE {"AbstractValue", "AbstractObjectValue"}

NextValue ==
  \/ \E realm \in Realms, t \in ConstructTypes, v \in ValueDomains,
        a \in DeriveArgs, r \in Recipes :
       \E cls \in ConstructClasses(t) :
         Construct(realm, cls, TypesDomain(t), v, a, r,
                   IF r.isFunction THEN << "kind" >> ELSE NoKind)
  \/ \E i \in 1..MaxAbstracts : Clone(i)
  \/ \E i \in 1..MaxAbstracts : PromoteEmptyToUndefined(i)
  \/ \E name \in PredicateNames, i \in 1..MaxAbstracts : Predicate(name, i)
  \/ \E t \in {"NumberValue", "NullValue"} :
       /\ Len(abstracts) < MaxAbstracts
       /\ Derive(TypesDomain(t), topVal, << >>, buildRecipe, NoKind)

SpecValue == Init /\ [][NextValue]_vars

----------------------------------------------------------------------------
(* Claims about the allocator (SpecAlloc) *)

Distinct(seq) == \A i, j \in 1..Len(seq) : i # j => seq[i] # seq[j]

\* C1: after restore(snap) the allocator has the uidCounter, the derivedIds
\* contents, the memoisedRefs contents and the prelude contents (in order) it
\* had at the moment of save(), whatever was minted, memoised or derived in
\* between.
C1_RestoreRoundTrip == ret.op = "restore" => Contents(pg) = snap.alloc

\* a restore after at least two names were handed out since the save, of a
\* snapshot that already held a binding
C1_Witness ==
  /\ ret.op = "restore"
  /\ Len(issued) >= snap.issued + 2
  /\ snap.alloc.prelude # << >>

\* C3 as claimed: no two generateUid calls of one allocator lifetime return
\* the same name, save and restore included.
C3_NeverRepeats == Distinct(issued)

\* C3 as amended: the names returned by the generateUid calls that no restore
\* has undone are pairwise distinct (a restore hands the names minted since
\* its snapshot out again).
C3_RetainedDistinct == Distinct(retained)

\* a name handed out again after a restore, beside one that was kept
C3_Witness ==
  /\ ret.op = "generateUid"
  /\ Len(retained) >= 2
  /\ Len(issued) > Len(retained)
  /\ ~Distinct(issued)

\* the prelude statements that bind the path of `key`
BindingsOf(key) ==
  { i \in 1..Len(arrays[pg.prelude]) :
      arrays[pg.prelude][i].declarations[1].init = convertStringToMember(key) }

\* C4: the prelude holds at most one binding statement per key, and a request
\* for a key that is memoised returns the stored reference node and changes
\* neither prelude, memoisedRefs nor uidCounter.
C4_MemoiseIdempotent ==
  /\ [](\A key \in MemoKeys : Cardinality(BindingsOf(key)) <= 1)
  /\ [][(ret'.op = "memoiseReference" /\ ret'.key \in DOMAIN maps[pg.memoisedRefs])
        => /\ ret'.node = maps[pg.memoisedRefs][ret'.key]
           /\ Contents(pg)' = Contents(pg) ]_vars

\* a request for a memoised key, answered after a restore brought the
\* allocator back to a snapshot that held it
C4_Witness ==
  /\ ret.op = "memoiseReference"
  /\ ret.hit
  /\ ret.node = maps[pg.memoisedRefs][ret.key]
  /\ snap.taken
  /\ ret.key \in DOMAIN snap.alloc.memoisedRefs
  /\ Len(issued) > Len(retained)

----------------------------------------------------------------------------
(* Claims about speculation (Spec) *)

\* C2: once the evaluator has cut the body back to the recorded length and
\* restored the allocator from the snapshot, the body entries (in order),
\* uidCounter, derivedIds, memoisedRefs and prelude are what they were when
\* the snapshot was taken.
C2_RollbackRestoresAll ==
  ret.op = "rollback" => body = snap.body /\ Contents(pg) = snap.alloc

\* a rollback to a non-empty body, after a derive created a value and at
\* least two names were handed out since the snapshot
C2_Witness ==
  /\ ret.op = "rollback"
  /\ Len(snap.body) >= 1
  /\ Len(abstracts) > snap.abstracts
  /\ Len(issued) >= snap.issued + 2

----------------------------------------------------------------------------
(* Claims about derive (SpecDerive) *)

\* the typeof tag the residual program reports for each checked type
TypeofTags ==
  [FunctionValue |-> "function", StringValue |-> "string", BooleanValue |-> "boolean",
   NumberValue |-> "number", SymbolValue |-> "symbol", ObjectValue |-> "object"]

\* typeof id !== tag, for object with || id === null
TypeofTest(id, tag) ==
  LET test == BinaryExpression("!==", UnaryExpression("typeof", id), StringLiteral(tag))
  IN IF tag = "object"
     THEN LogicalExpression("||", test, BinaryExpression("===", id, NullLiteral))
     ELSE test

\* C5: a successful derive whose type is one of function, string, boolean,
\* number, symbol, object appends exactly two entries: the declaration of the
\* new identifier with the caller's dependencies, then one invariant check
\* whose only dependency is the returned value and whose condition is the
\* typeof test of that identifier against the tag; for an unknown type it
\* appends the declaration alone.
C5_DeriveEntries ==
  [][(ret'.op = "derive" /\ ~ret'.fault) =>
       LET type == ret'.types.type
           id == ret'.minted[1]
           n == Len(body)
       IN /\ Len(body') > n
          /\ SubSeq(body', 1, n) = body
          /\ body'[n + 1].declaresDerivedId = << id >>
          /\ body'[n + 1].args = ret'.args
          /\ body'[n + 1].buildNode.fn = "derive"
          /\ IF type \in DOMAIN TypeofTags
             THEN /\ Len(body') = n + 2
                  /\ body'[n + 2].declaresDerivedId = << >>
                  /\ body'[n + 2].args = << ret'.value >>
                  /\ body'[n + 2].buildNode.fn = "emitInvariant"
                  /\ buildNode(body'[n + 2], << id >>, id).test
                       = TypeofTest(id, TypeofTags[type])
             ELSE /\ type = "Value"
                  /\ Len(body') = n + 1 ]_vars

\* a derive of object type facts, after an earlier derive
C5_Witness ==
  /\ ret.op = "derive"
  /\ ~ret.fault
  /\ ret.types.type = "ObjectValue"
  /\ Len(body) = 3
  /\ body[3].args = << ret.value >>

\* C6: the value a successful derive returns has the minted identifier as its
\* fixed node (hasIdentifier, getIdentifier), is named after it, has the
\* caller's dependencies; the identifier is new, is in derivedIds after the
\* call and is the declaresDerivedId of the declaration the call appended.
C6_DerivedValueNamed ==
  [][(ret'.op = "derive" /\ ~ret'.fault) =>
       LET id == ret'.minted[1]
           res == abstracts'[ret'.value.ref]
       IN /\ Len(abstracts') = Len(abstracts) + 1
          /\ ret'.value.ref = Len(abstracts')
          /\ id.name = "_" \o Base62Encode(pg.uidCounter)
          /\ id \notin sets[pg.derivedIds]
          /\ hasIdentifier(res)
          /\ getIdentifier(res) = id
          /\ res.intrinsicName = << id.name >>
          /\ res.args = ret'.args
          /\ id \in sets'[pg'.derivedIds]
          /\ body'[Len(body) + 1].declaresDerivedId = << id >> ]_vars

\* a derive from a closure over a dependency, the second of the run
C6_Witness ==
  /\ ret.op = "derive"
  /\ ~ret.fault
  /\ ret.buildNode_.isFunction
  /\ ret.args = << aNumber >>
  /\ Len(abstracts) = 2
  /\ abstracts[2].intrinsicName = << "_1" >>

\* C7: derive called with a non-empty dependency list and a fixed node
\* faults, and derive mints and records only when the recipe is a closure or
\* the dependency list is empty.
C7_DerivePrecondition ==
  [][ret'.op = "derive" =>
       /\ (Len(ret'.args) > 0 /\ ~ret'.buildNode_.isFunction)
            => ret'.fault /\ ret'.minted = << >>
       /\ (ret'.minted # << >> \/ body' # body \/ ~ret'.fault)
            => ret'.buildNode_.isFunction \/ Len(ret'.args) = 0 ]_vars

\* the faulting call, made on a generator that has already derived
C7_Witness ==
  /\ ret.op = "derive"
  /\ ret.fault
  /\ Len(ret.args) > 0
  /\ ~ret.buildNode_.isFunction
  /\ ret.minted = << >>
  /\ Len(body) >= 1

----------------------------------------------------------------------------
(* Claims about emitDefineProperty (SpecDefine) *)

FullData(desc) ==
  desc.enumerable /\ desc.configurable /\ desc.writable /\ Truthy(desc.value)

\* C8: for a descriptor that is enumerable, configurable, writable and has a
\* value, emitDefineProperty appends the entry emitPropertyAssignment(object,
\* key, desc.value) appends, one entry with dependencies [object, value] that
\* builds object.key = value, and nothing else.
C8_DefineDegradesToAssignment ==
  [][(ret'.op = "emitDefineProperty" /\ FullData(ret'.desc)) =>
       LET o == ret'.object
           v == ret'.desc.value
           e == body'[Len(body) + 1]
       IN /\ body' = Append(body, emitPropertyAssignment(o, ret'.key, v))
          /\ e.args = << o, v >>
          /\ e.declaresDerivedId = << >>
          /\ buildNode(e, << resolveNode(o), resolveNode(v) >>, Identifier("", 0))
               = ExpressionStatement(AssignmentExpression(
                   MemberExpression(resolveNode(o), Identifier(ret'.key, 0)),
                   resolveNode(v))) ]_vars

\* the assignment path taken for a second entry
C8_Witness ==
  /\ ret.op = "emitDefineProperty"
  /\ FullData(ret.desc)
  /\ Len(body) = 2
  /\ body[2].buildNode.fn = "emitPropertyAssignment"

\* the keys of the descriptor object a define-property statement passes
DescriptorKeys(stmt) ==
  LET props == stmt.expression.arguments[3].properties
  IN { props[i].key.name : i \in 1..Len(props) }

\* C9 as claimed: for every descriptor with a getter, whatever its other
\* fields, emitDefineProperty appends one entry whose dependencies include
\* the getter and the setter (undefined when missing) and whose descriptor
\* object is the accessor pair get/set.
C9_GetterMakesAccessor ==
  [][(ret'.op = "emitDefineProperty" /\ Truthy(ret'.desc.get)) =>
       LET e == body'[Len(body) + 1]
       IN /\ Len(body') = Len(body) + 1
          /\ \E i \in 1..Len(e.args) : e.args[i] = ret'.desc.get
          /\ \E i \in 1..Len(e.args) : e.args[i] = OrUndefined(ret'.desc.set)
          /\ e.buildNode.fn = "emitDefineProperty"
          /\ DescriptorKeys(buildNode(e, resolveNodes(e.args), Identifier("", 0)))
               = {"enumerable", "configurable", "get", "set"} ]_vars

\* C10: the prelude holds at most one binding of Object.defineProperty; the
\* statement of a replayed define-property entry calls the memoised
\* reference node, whose binding is then in the prelude exactly once; once
\* the reference is memoised every replay calls that same node; and
\* emitDefineProperty itself leaves prelude, memoisedRefs and uidCounter alone.
C10_DefinePropertyMemoisedOnce ==
  /\ [](/\ Cardinality(BindingsOf(DefinePropertyKey)) <= 1
        /\ (ret.op = "replay" /\ body[ret.index].buildNode.fn = "emitDefineProperty")
             => /\ DefinePropertyKey \in DOMAIN maps[pg.memoisedRefs]
                /\ ret.statement.expression.callee
                     = maps[pg.memoisedRefs][DefinePropertyKey]
                /\ \A i \in BindingsOf(DefinePropertyKey) :
                     arrays[pg.prelude][i].declarations[1].id
                       = ret.statement.expression.callee
                /\ Cardinality(BindingsOf(DefinePropertyKey)) = 1)
  /\ [][(/\ ret'.op = "replay"
         /\ body[ret'.index].buildNode.fn = "emitDefineProperty"
         /\ DefinePropertyKey \in DOMAIN maps[pg.memoisedRefs])
        => /\ ret'.statement.expression.callee
                = maps[pg.memoisedRefs][DefinePropertyKey]
           /\ Contents(pg)' = Contents(pg) ]_vars
  /\ [][ret'.op = "emitDefineProperty" => Contents(pg)' = Contents(pg)]_vars

\* a replay that calls the node minted first, after a later key was memoised
\* and with two define-property entries recorded
C10_Witness ==
  /\ ret.op = "replay"
  /\ ret.index = 2
  /\ body[1].buildNode.fn = "emitDefineProperty"
  /\ body[2].buildNode.fn = "emitDefineProperty"
  /\ ret.statement.expression.callee.oid = 1
  /\ Len(issued) = 2

----------------------------------------------------------------------------
(* Claims about the emit operations (SpecEmit) *)

EmitOps ==
  { "emitGlobalDeclaration", "emitGlobalAssignment", "emitGlobalDelete",
    "emitPropertyAssignment", "emitDefineProperty", "emitPropertyDelete",
    "emitConsoleLog", "emitInvariant" }

\* C11: each emit operation appends exactly one entry at the end of body,
\* leaves the entries recorded before it unchanged and in place, and leaves
\* uidCounter, derivedIds, memoisedRefs and prelude unchanged; empty() is
\* true exactly when body holds no entry.
C11_EmitsAppendOnly ==
  /\ [][ret'.op \in EmitOps =>
          /\ Len(body') = Len(body) + 1
          /\ SubSeq(body', 1, Len(body)) = body
          /\ Contents(pg)' = Contents(pg) ]_vars
  /\ [](ret.op = "empty" => (ret.result <=> body = << >>))

\* a property delete recorded third, behind a derived declaration and one
\* other entry, on an allocator that holds a binding
C11_Witness ==
  /\ ret.op = "emitPropertyDelete"
  /\ Len(body) = 3
  /\ body[1].declaresDerivedId # << >>
  /\ body[2] # body[3]
  /\ body[3] = emitPropertyDelete(ret.object, ret.key)
  /\ arrays[pg.prelude] # << >>

----------------------------------------------------------------------------
(* Claims about snapshots (SpecAlloc) *)

\* C12: once save() has returned a snapshot, no operation on the live
\* allocator changes the snapshot's uidCounter, derivedIds, memoisedRefs or
\* prelude, before or after a restore; the snapshot keeps what the allocator
\* held at save(), so every restore from it yields that same state.
C12_SnapshotNotAliased ==
  /\ [](saved # << >> => Contents(saved[1]) = snap.alloc)
  /\ [][(saved # << >> /\ ret'.op # "save")
          => Contents(saved[1])' = Contents(saved[1])]_vars
  /\ [][ret'.op = "restore" => Contents(pg)' = Contents(saved[1])]_vars

\* a second restore from one snapshot that held a binding: the name minted
\* after the first restore is the one minted before it
C12_Witness ==
  /\ ret.op = "restore"
  /\ snap.alloc.prelude # << >>
  /\ ~Distinct(SubSeq(issued, snap.issued + 1, Len(issued)))
  /\ Contents(saved[1]) = snap.alloc
  /\ Contents(pg) = snap.alloc

----------------------------------------------------------------------------
(* Claims about the symbolic values (SpecValue) *)

NeverSymbolic == { "NullValue", "UndefinedValue" }

\* C13: constructing a symbolic value with null or undefined type facts
\* faults whatever the dependencies and the recipe, as does construction
\* outside partial mode or with object type facts on the base class; so
\* every value made by construct, clone, promoteEmptyToUndefined or derive
\* has a type that is neither null nor undefined.
C13_NoNullOrUndefinedValue ==
  /\ [](\A i \in 1..Len(abstracts) : getType(abstracts[i].types) \notin NeverSymbolic)
  /\ [][(/\ ret'.op = "construct"
          /\ \/ getType(ret'.types) \in NeverSymbolic
             \/ ~ret'.realm.isPartial
             \/ getType(ret'.types) = "ObjectValue" /\ ret'.cls = "AbstractValue")
         => ret'.fault /\ abstracts' = abstracts ]_vars
  /\ [][(ret'.op = "derive" /\ getType(ret'.types) \in NeverSymbolic)
         => ret'.fault /\ abstracts' = abstracts ]_vars

\* the construction of a null-typed value from a closure over a dependency,
\* in partial mode, has faulted
C13_Witness ==
  /\ ret.op = "construct"
  /\ ret.fault
  /\ ret.realm.isPartial
  /\ getType(ret.types) = "NullValue"
  /\ ret.args # << >>
  /\ ret.buildNode_.isFunction
  /\ abstracts = << >>

\* the category a predicate asks about, and the value-domain query it falls
\* back to
CategoryOf(name) ==
  CASE name \in {"mightBeNumber", "mightNotBeNumber"} -> "NumberValue"
    [] name \in {"mightBeObject", "mightNotBeObject"} -> "ObjectValue"
    [] name = "mightBeUndefined" -> "UndefinedValue"
    [] name = "mightHaveBeenDeleted" -> "EmptyValue"

NegativePredicates == { "mightNotBeNumber", "mightNotBeObject" }

DomainQuery(name, values) ==
  IF name \in NegativePredicates THEN includesValueNotOfType(values, CategoryOf(name))
  ELSE includesValueOfType(values, CategoryOf(name))

\* C14: for a value whose type is exactly Number, mightBeNumber is true and
\* mightNotBeNumber false whatever its value domain holds, and likewise for
\* Object with mightBeObject and mightNotBeObject; when the type does not
\* settle it a predicate returns the value-domain query for its category;
\* no predicate changes any state.
C14_PredicateFastPath ==
  /\ [](ret.op \in PredicateNames =>
          LET av == abstracts[ret.this.ref]
              type == getType(av.types)
          IN /\ type = "NumberValue" =>
                  /\ ret.op = "mightBeNumber" => ret.result
                  /\ ret.op = "mightNotBeNumber" => ~ret.result
             /\ type = "ObjectValue" =>
                  /\ ret.op = "mightBeObject" => ret.result
                  /\ ret.op = "mightNotBeObject" => ~ret.result
             /\ (ret.op = "mightHaveBeenDeleted" \/ type # CategoryOf(ret.op))
                  => ret.result = DomainQuery(ret.op, av.values))
  /\ [][ret'.op \in PredicateNames =>
          UNCHANGED <<pg, saved, arrays, sets, maps, body, savedLen, issued,
                      abstracts, retained, snap>>]_vars

\* mightNotBeNumber answered false for a Number-typed value whose value
\* domain holds a value that is not a number
C14_Witness ==
  /\ ret.op = "mightNotBeNumber"
  /\ ~ret.result
  /\ getType(abstracts[ret.this.ref].types) = "NumberValue"
  /\ ~abstracts[ret.this.ref].values.isTop
  /\ includesValueNotOfType(abstracts[ret.this.ref].values, "NumberValue")

\* the receiver of the call recorded in ret' can have been deleted
Deletable(av) == includesValueOfType(av.values, "EmptyValue")

\* C15: promoteEmptyToUndefined on a value whose value domain does not
\* include the deletion sentinel returns that same value, allocates nothing,
\* appends no body entry and changes no allocator state.
C15_PromoteIdentity ==
  [][(ret'.op = "promoteEmptyToUndefined" /\ ~Deletable(abstracts[ret'.this.ref])) =>
       /\ ~ret'.fault
       /\ ret'.value = ret'.this
       /\ abstracts' = abstracts
       /\ body' = body
       /\ Contents(pg)' = Contents(pg) ]_vars

\* the call on the second value of the heap, a clone whose value domain
\* holds numbers only
C15_Witness ==
  /\ ret.op = "promoteEmptyToUndefined"
  /\ ret.this.ref = 2
  /\ ret.value = ret.this
  /\ abstracts[2].values = ValuesOf({"NumberValue"})
  /\ Len(abstracts) = 2

\* C16: promoteEmptyToUndefined on a value v whose value domain includes
\* the deletion sentinel returns a new value, distinct from v, whose
\* dependencies are [guard, undefined, v], where guard is a new
\* boolean-typed value with dependencies [v, empty]; v keeps its types,
\* values, dependencies and recipe; no body entry is appended and no
\* identifier is consumed.
C16_PromoteGuarded ==
  [][(ret'.op = "promoteEmptyToUndefined" /\ Deletable(abstracts[ret'.this.ref])) =>
       LET v == ret'.this
           n == Len(abstracts)
           result == abstracts'[ret'.value.ref]
           guard == result.args[1]
       IN /\ ~ret'.fault
          /\ ret'.value # v
          /\ ret'.value.ref \in (n + 1)..Len(abstracts')
          /\ result.args = << guard, undefined, v >>
          /\ IsAbstract(guard)
          /\ guard.ref \in ((n + 1)..Len(abstracts')) \ {ret'.value.ref}
          /\ getType(abstracts'[guard.ref].types) = "BooleanValue"
          /\ abstracts'[guard.ref].args = << v, empty >>
          /\ SubSeq(abstracts', 1, n) = abstracts
          /\ body' = body
          /\ pg'.uidCounter = pg.uidCounter
          /\ issued' = issued
          /\ Contents(pg)' = Contents(pg) ]_vars

\* the promotion of a constructed value that may be a number or deleted:
\* the result may be a number or undefined
C16_Witness ==
  /\ ret.op = "promoteEmptyToUndefined"
  /\ ret.this.ref = 1
  /\ ret.value.ref = 2
  /\ Len(abstracts) = 3
  /\ abstracts[1].values = ValuesOf({"NumberValue", "EmptyValue"})
  /\ abstracts[2].values = ValuesOf({"NumberValue", "UndefinedValue"})
  /\ abstracts[2].args[1].ref = 3

----------------------------------------------------------------------------
(* Claims about the identifiers of the residual program *)

\* the names declared by the entries of body, then the names bound by the
\* statements of prelude
DeclaredNames ==
  LET decls == SelectSeq(body, LAMBDA e : e.declaresDerivedId # << >>)
      prelude == arrays[pg.prelude]
  IN [i \in 1..Len(decls) |-> decls[i].declaresDerivedId[1].name]
       \o [i \in 1..Len(prelude) |-> prelude[i].declarations[1].id.name]

\* C17: under derive, the emit operations, memoiseReference, replay and
\* rollbacks that cut the body back together with restoring the snapshot
\* taken at that length, the names declared by the entries in body and
\* bound by the statements in prelude are pairwise distinct.
C17_LiveNamesDistinct == Distinct(DeclaredNames)

\* a derived name and a prelude binding side by side, after a rollback made
\* the allocator hand a name out a second time
C17_Witness ==
  /\ ~Distinct(issued)
  /\ arrays[pg.prelude] # << >>
  /\ \E i \in 1..Len(body) : body[i].declaresDerivedId # << >>
  /\ Len(DeclaredNames) >= 2

\* C18 as claimed: a derive call that faults, for a fixed node with
\* dependencies or for null or undefined type facts, leaves body, uidCounter
\* and derivedIds as they were before the call.
C18_FaultLeavesNoTrace ==
  [][(ret'.op = "derive" /\ ret'.fault) =>
       /\ body' = body
       /\ pg'.uidCounter = pg.uidCounter
       /\ sets'[pg'.derivedIds] = sets[pg.derivedIds] ]_vars

\* C18 as amended: a derive call that faults on its precondition (a fixed
\* node with dependencies) leaves body, uidCounter and derivedIds as they
\* were; one that faults on null or undefined type facts has by then minted
\* an identifier, added it to derivedIds and appended its declaration, and
\* creates no value and no invariant check.
C18_FaultTrace ==
  [][(ret'.op = "derive" /\ ret'.fault) =>
       /\ abstracts' = abstracts
       /\ ret'.value = NoValue
       /\ IF Len(ret'.args) > 0 /\ ~ret'.buildNode_.isFunction
          THEN /\ body' = body
               /\ pg'.uidCounter = pg.uidCounter
               /\ sets'[pg'.derivedIds] = sets[pg.derivedIds]
          ELSE /\ getType(ret'.types) \in NeverSymbolic
               /\ pg'.uidCounter = pg.uidCounter + 1
               /\ Len(body') = Len(body) + 1
               /\ SubSeq(body', 1, Len(body)) = body
               /\ body'[Len(body')].declaresDerivedId = ret'.minted
               /\ Len(ret'.minted) = 1
               /\ ret'.minted[1].name = "_" \o Base62Encode(pg.uidCounter)
               /\ ret'.minted[1] \notin sets[pg.derivedIds]
               /\ sets'[pg'.derivedIds] = sets[pg.derivedIds] \cup {ret'.minted[1]} ]_vars

\* a derive with undefined type facts has faulted after an earlier derive,
\* leaving a second declaration behind
C18_Witness ==
  /\ ret.op = "derive"
  /\ ret.fault
  /\ getType(ret.types) = "UndefinedValue"
  /\ Len(ret.args) = 0
  /\ Len(body) >= 2
  /\ body[Len(body)].declaresDerivedId = ret.minted
  /\ pg.uidCounter = 2

\* C19: under derive, the emit operations, memoiseReference and rollbacks
\* that cut the body back together with restoring the matching snapshot,
\* every identifier an entry of body declares is a member of derivedIds and
\* was minted from a counter value below the current uidCounter.
C19_DeclaredTracked ==
  \A i \in 1..Len(body) :
    body[i].declaresDerivedId # << >> =>
      LET id == body[i].declaresDerivedId[1]
      IN /\ id \in sets[pg.derivedIds]
         /\ \E k \in 0..(pg.uidCounter - 1) : id.name = "_" \o Base62Encode(k)

\* after a rollback: a declaration recorded before the snapshot and one
\* recorded after the rollback, under a name handed out twice
C19_Witness ==
  /\ ~Distinct(issued)
  /\ Len(SelectSeq(body, LAMBDA e : e.declaresDerivedId # << >>)) >= 2
  /\ savedLen >= 1
  /\ body[1].declaresDerivedId # << >>
  /\ ret.op = "derive"

\* the live allocator's prelude and memo table, and the identifier the i-th
\* prelude statement binds
LivePrelude == arrays[pg.prelude]
LiveMemo == maps[pg.memoisedRefs]
Bound(i) == LivePrelude[i].declarations[1].id

\* C20: under generateUid, memoiseReference, save and restore, prelude has
\* as many statements as memoisedRefs has keys, each key's reference is the
\* identifier bound by exactly one statement (to the key's path), distinct
\* keys have distinct identifiers, and the statements stand in the order in
\* which their identifiers were minted, a new binding going to the end.
C20_PreludeMatchesMemo ==
  /\ [](/\ Len(LivePrelude) = Cardinality(DOMAIN LiveMemo)
        /\ \A key \in DOMAIN LiveMemo :
             /\ Cardinality({ i \in 1..Len(LivePrelude) : Bound(i) = LiveMemo[key] }) = 1
             /\ Cardinality({ i \in 1..Len(LivePrelude) :
                                Bound(i).name = LiveMemo[key].name }) = 1
             /\ \A i \in 1..Len(LivePrelude) :
                  Bound(i) = LiveMemo[key] =>
                    LivePrelude[i].declarations[1].init = convertStringToMember(key)
        /\ \A k1, k2 \in DOMAIN LiveMemo :
             k1 # k2 => LiveMemo[k1].name # LiveMemo[k2].name
        /\ \A i, j \in 1..Len(LivePrelude) : i < j => Bound(i).oid < Bound(j).oid)
  /\ [][(ret'.op = "memoiseReference" /\ ~ret'.hit) =>
          LivePrelude'
            = Append(LivePrelude, VariableDeclaration(ret'.node,
                                                      convertStringToMember(ret'.key)))]_vars

\* both keys memoised, the second one after a restore undid a name
C20_Witness ==
  /\ Len(arrays[pg.prelude]) = 2
  /\ Cardinality(DOMAIN maps[pg.memoisedRefs]) = 2
  /\ Len(issued) > Len(retained)
  /\ ret.op = "memoiseReference"
  /\ ~ret.hit

====
